---- MODULE Spec2Model ----
(***************************************************************************)
(* A model of C-Mon (src/C-Mon.cpp): the SystemMonitor class, its monitor  *)
(* loop and main.  Two specifications share the variables:                 *)
(*   Spec         one run of main: construction, the monitor loop, exit    *)
(*   TrackerSpec  get_cpu_usage called again and again on arbitrary        *)
(*                /proc/stat contents                                      *)
(***************************************************************************)
EXTENDS Integers, Sequences, FiniteSets

(***************************************************************************)
(* Bounds of the model.                                                    *)
(***************************************************************************)
\* largest total of the counters of one /proc/stat line (TrackerSpec)
MaxTotal == 2
\* number of get_cpu_usage calls explored by TrackerSpec
MaxCalls == 3
\* largest --count explored, and the number of ticks after which an
\* endless session (count = -1) is no longer followed
MaxCount == 2

\* the eight counters of struct CPUStats
NumFields == 8

(***************************************************************************)
(* double arithmetic, exact on finite values, with the IEEE-754 specials   *)
(* that a division by zero produces.                                       *)
(***************************************************************************)
Abs(n) == IF n < 0 THEN -n ELSE n

RECURSIVE Gcd(_, _)
Gcd(a, b) == IF b = 0 THEN a ELSE Gcd(b, a % b)

\* the finite double n/d (d # 0), in lowest terms with a positive denominator
Fin(n, d) ==
    LET g == Gcd(Abs(n), Abs(d))
        s == IF d < 0 THEN -1 ELSE 1
    IN  [cls |-> "fin", num |-> (s * n) \div g, den |-> (s * d) \div g]

NaN == [cls |-> "nan", num |-> 0, den |-> 1]
PInf == [cls |-> "pinf", num |-> 0, den |-> 1]
NInf == [cls |-> "ninf", num |-> 0, den |-> 1]
Zero == Fin(0, 1)
\* a double local that has not been assigned yet
NoDouble == [cls |-> "unset", num |-> 0, den |-> 1]

\* static_cast<double>(a) / b for integers a, b
DivDouble(a, b) ==
    IF b # 0 THEN Fin(a, b)
    ELSE IF a = 0 THEN NaN
    ELSE IF a > 0 THEN PInf ELSE NInf

\* 1.0 - x
OneMinus(x) ==
    CASE x.cls = "fin" -> Fin(x.den - x.num, x.den)
      [] x.cls = "pinf" -> NInf
      [] x.cls = "ninf" -> PInf
      [] OTHER -> NaN

\* 100.0 * x
Times100(x) ==
    IF x.cls = "fin" THEN Fin(100 * x.num, x.den) ELSE x

\* comparisons of a double with 0.0 and 100.0 (false for NaN and infinities)
GeZero(x) == x.cls = "fin" /\ x.num >= 0
LeHundred(x) == x.cls = "fin" /\ x.num <= 100 * x.den

(***************************************************************************)
(* struct CPUStats, struct MemoryStats and the three counter readers.      *)
(***************************************************************************)
CPUStats(f) ==
    [user |-> f[1], nice |-> f[2], system |-> f[3], idle |-> f[4],
     iowait |-> f[5], irq |-> f[6], softirq |-> f[7], steal |-> f[8]]

total(s) ==
    s.user + s.nice + s.system + s.idle + s.iowait + s.irq + s.softirq + s.steal

active(s) ==
    s.user + s.nice + s.system + s.irq + s.softirq + s.steal

MemoryStats(t, f, a, b, c) ==
    [total |-> t, free |-> f, available |-> a, buffers |-> b, cached |-> c]

used_percent(m) ==
    Times100(OneMinus(DivDouble(m.available, m.total)))

\* A /proc/stat source is [open, fields]: whether the file can be opened and
\* the numeric tokens that follow the label on its first line (<<>> for an
\* empty file, an empty line or a bare label).  The stream extractions fill
\* the counters in order and leave the rest at their initial 0; an ifstream
\* that failed to open makes getline fail and nothing is thrown.
get_cpu_stats(src) ==
    LET fields == IF src.open THEN src.fields ELSE << >>
    IN  [threw |-> FALSE,
         stats |-> CPUStats([i \in 1..NumFields |->
                               IF i <= Len(fields) THEN fields[i] ELSE 0])]

\* A /proc/meminfo source is [open, lines], each line a <<key, value>> pair.
RECURSIVE ParseMeminfo(_, _)
ParseMeminfo(lines, stats) ==
    IF lines = << >> THEN stats
    ELSE LET key == Head(lines)[1]
             value == Head(lines)[2]
             next == CASE key = "MemTotal:" -> [stats EXCEPT !.total = value]
                       [] key = "MemFree:" -> [stats EXCEPT !.free = value]
                       [] key = "MemAvailable:" -> [stats EXCEPT !.available = value]
                       [] key = "Buffers:" -> [stats EXCEPT !.buffers = value]
                       [] key = "Cached:" -> [stats EXCEPT !.cached = value]
                       [] OTHER -> stats
         IN  ParseMeminfo(Tail(lines), next)

\* an ifstream that failed to open yields no line: every field stays 0
get_memory_stats(src) ==
    [threw |-> FALSE,
     stats |-> ParseMeminfo(IF src.open THEN src.lines ELSE << >>,
                            MemoryStats(0, 0, 0, 0, 0))]

\* variant: the filesystem_error is not caught
get_disk_usage_rethrow(q) ==
    IF q.st = "error" THEN [threw |-> TRUE, value |-> Zero]
    ELSE IF q.capacity > 0
         THEN [threw |-> FALSE, value |-> Times100(OneMinus(DivDouble(q.free, q.capacity)))]
         ELSE [threw |-> FALSE, value |-> Zero]

\* A filesystem-space query is [st, capacity, free]; st = "error" is
\* fs::space throwing filesystem_error, which get_disk_usage catches.
get_disk_usage(q) ==
    IF q.st # "error" /\ q.capacity > 0
    THEN [threw |-> FALSE, value |-> Times100(OneMinus(DivDouble(q.free, q.capacity)))]
    ELSE [threw |-> FALSE, value |-> Zero]

(***************************************************************************)
(* SystemMonitor::get_cpu_usage on the object state (first, prev) and the  *)
(* /proc/stat source it reads.  reads is the number of get_cpu_stats calls *)
(* made, divided says whether the division of line 100 was executed.       *)
(***************************************************************************)
\* variant: first_cpu_reading is never cleared
get_cpu_usage_keep_first(first, prev, src) ==
    LET r == get_cpu_stats(src)
        cur == r.stats
        total_delta == total(cur) - total(prev)
        active_delta == active(cur) - active(prev)
        div == ~first /\ total_delta > 0
    IN  [threw |-> r.threw, reads |-> 1, current |-> cur, divided |-> div,
         usage |-> IF div THEN Times100(DivDouble(active_delta, total_delta)) ELSE Zero,
         first |-> first, prev |-> cur]

\* variant: the baseline is stored only when a percentage was derived
get_cpu_usage_keep_baseline(first, prev, src) ==
    LET r == get_cpu_stats(src)
        cur == r.stats
        total_delta == total(cur) - total(prev)
        active_delta == active(cur) - active(prev)
        div == ~first /\ total_delta > 0
    IN  [threw |-> r.threw, reads |-> 1, current |-> cur, divided |-> div,
         usage |-> IF div THEN Times100(DivDouble(active_delta, total_delta)) ELSE Zero,
         first |-> FALSE, prev |-> IF first \/ div THEN cur ELSE prev]

\* variant: the guard is total_delta >= 0
get_cpu_usage_divide_on_zero(first, prev, src) ==
    LET r == get_cpu_stats(src)
        cur == r.stats
        total_delta == total(cur) - total(prev)
        active_delta == active(cur) - active(prev)
        div == ~first /\ total_delta >= 0
    IN  [threw |-> r.threw, reads |-> 1, current |-> cur, divided |-> div,
         usage |-> IF div THEN Times100(DivDouble(active_delta, total_delta)) ELSE Zero,
         first |-> FALSE, prev |-> cur]

get_cpu_usage(first, prev, src) ==
    LET r == get_cpu_stats(src)
        cur == r.stats
        total_delta == total(cur) - total(prev)
        active_delta == active(cur) - active(prev)
        div == ~first /\ total_delta > 0
    IN  [threw |-> r.threw, reads |-> 1, current |-> cur, divided |-> div,
         usage |-> IF div THEN Times100(DivDouble(active_delta, total_delta)) ELSE Zero,
         first |-> FALSE, prev |-> cur]

(***************************************************************************)
(* State.                                                                  *)
(***************************************************************************)
VARIABLES
    pc,                 \* position of main / SystemMonitor::monitor
    count,              \* main's count (-c), monitor's parameter
    interval_seconds,   \* main's interval (-i), monitor's parameter
    log_file,           \* main's log_file (-l), "" when absent
    log_to_file,        \* SystemMonitor::log_to_file
    first_cpu_reading,  \* SystemMonitor::first_cpu_reading
    prev_cpu_stats,     \* SystemMonitor::prev_cpu_stats
    current,            \* get_cpu_usage's local: the reading of its last call
    divided,            \* whether the last get_cpu_usage call executed line 100
    iterations,         \* monitor's local
    cpu_usage,          \* monitor's local
    mem_stats,          \* monitor's local
    disk_usage,         \* monitor's local
    timestamp,          \* monitor's local
    console,            \* the lines written to std::cout, oldest first
    csv,                \* the lines of the log file, oldest first
    clock,              \* wall-clock time in seconds
    sleeps,             \* number of sleep_for calls made
    exit_code,          \* main's return value, -1 while it runs
    proc_stat,          \* "closed", or how this tick's /proc/stat open went
    proc_meminfo,       \* "closed", or how this tick's /proc/meminfo open went
    meminfo,            \* the /proc/meminfo source of the last read
    space_result,       \* the outcome of this tick's fs::space call
    stat_reads,         \* number of get_cpu_stats calls made
    meminfo_reads,      \* number of get_memory_stats calls made
    space_queries,      \* number of fs::space calls made
    clock_reads         \* number of get_timestamp calls made

vars ==
    <<pc, count, interval_seconds, log_file, log_to_file, first_cpu_reading,
      prev_cpu_stats, current, divided, iterations, cpu_usage, mem_stats,
      disk_usage, timestamp, console, csv, clock, sleeps, exit_code,
      proc_stat, proc_meminfo, meminfo, space_result, stat_reads,
      meminfo_reads, space_queries, clock_reads>>

\* the variables of the SystemMonitor object and of get_cpu_usage
tracker_vars == <<first_cpu_reading, prev_cpu_stats, current, divided>>
\* the counter sources
source_vars ==
    <<proc_stat, proc_meminfo, meminfo, space_result, stat_reads,
      meminfo_reads, space_queries>>

(***************************************************************************)
(* Values.                                                                 *)
(***************************************************************************)
ZeroStats == CPUStats([i \in 1..NumFields |-> 0])
\* prev_cpu_stats has no initializer: its value after construction is
\* indeterminate
IndeterminateStats ==
    {ZeroStats, CPUStats([i \in 1..NumFields |-> IF i = 4 THEN 7 ELSE 3])}

NoMemoryStats == MemoryStats(-1, -1, -1, -1, -1)
NoSpace == [st |-> "none", capacity |-> 0, free |-> 0]
NoMeminfo == [open |-> FALSE, lines |-> << >>]

Snapshot(ts, cpu, mem, disk) ==
    [kind |-> "data", timestamp |-> ts, cpu |-> cpu, mem |-> mem, disk |-> disk]
\* "Timestamp,CPU Usage (%),Memory Usage (%),Disk Usage (%)"
Header ==
    [kind |-> "header", timestamp |-> 0, cpu |-> NoDouble, mem |-> NoDouble,
     disk |-> NoDouble]
\* a line left in the log file by an earlier run
OldLine ==
    [kind |-> "old", timestamp |-> 0, cpu |-> NoDouble, mem |-> NoDouble,
     disk |-> NoDouble]

(***************************************************************************)
(* The inputs and counter sources of a session (Spec).                     *)
(***************************************************************************)
Counts == -2..MaxCount
Intervals == {0, 1}
LogFiles == {"", "log.csv"}

StatSources ==
    {[open |-> FALSE, fields |-> << >>],
     [open |-> TRUE, fields |-> <<100, 0, 0, 900, 0, 0, 0, 0>>],
     [open |-> TRUE, fields |-> <<200, 0, 0, 1800, 0, 0, 0, 0, 0, 0>>]}

MeminfoSources ==
    {[open |-> FALSE, lines |-> << >>],
     [open |-> TRUE,
      lines |-> << <<"MemTotal:", 8>>, <<"MemFree:", 1>>, <<"MemAvailable:", 2>>,
                   <<"Buffers:", 1>>, <<"Cached:", 1>>, <<"SwapTotal:", 4>> >>]}

SpaceResults ==
    {[st |-> "error", capacity |-> 0, free |-> 0],
     [st |-> "ok", capacity |-> 0, free |-> 0],
     [st |-> "ok", capacity |-> 4, free |-> 1]}

(***************************************************************************)
(* main and SystemMonitor::monitor, one action per statement.              *)
(***************************************************************************)
\* variant: get_timestamp is called before the counters are read
BodyOrder_timestamp_first ==
    <<"ts", "cpu", "mem", "disk", "print", "log", "end">>

\* the order of the statements of the loop body
BodyOrder ==
    <<"cpu", "mem", "disk", "ts", "print", "log", "end">>

After(p) ==
    LET i == CHOOSE j \in 1..Len(BodyOrder) : BodyOrder[j] = p
    IN  BodyOrder[i + 1]

\* the condition of the while loop
LoopCond(c, i) == c = -1 \/ i < c

\* variant: sleep after every tick
ShouldSleep_always(c, i) == TRUE

\* the condition of the sleep at the end of the loop body
ShouldSleep(c, i) == c = -1 \/ i < c

\* an exception leaving monitor is caught by main, which returns 1
Throw ==
    /\ pc' = "exit"
    /\ exit_code' = 1

\* variant: the log file is opened without std::ios::trunc
Constructor_append ==
    /\ UNCHANGED clock_reads
    /\ pc = "main"
    /\ log_to_file' = (log_file # "")
    /\ csv' = IF log_file # "" THEN Append(csv, Header) ELSE csv
    /\ pc' = "loop"
    /\ UNCHANGED <<count, interval_seconds, log_file, iterations, cpu_usage,
                   mem_stats, disk_usage, timestamp, console, clock, sleeps,
                   exit_code>>
    /\ UNCHANGED tracker_vars
    /\ UNCHANGED source_vars

\* SystemMonitor monitor(log_file): truncate the log file, write the header
Constructor ==
    /\ UNCHANGED clock_reads
    /\ pc = "main"
    /\ log_to_file' = (log_file # "")
    /\ csv' = IF log_file # "" THEN <<Header>> ELSE csv
    /\ pc' = "loop"
    /\ UNCHANGED <<count, interval_seconds, log_file, iterations, cpu_usage,
                   mem_stats, disk_usage, timestamp, console, clock, sleeps,
                   exit_code>>
    /\ UNCHANGED tracker_vars
    /\ UNCHANGED source_vars

\* while (count == -1 || iterations < count), and main's return 0 after it
LoopTest ==
    /\ UNCHANGED clock_reads
    /\ pc = "loop"
    /\ IF LoopCond(count, iterations)
       THEN /\ count = -1 => iterations < MaxCount
            /\ pc' = BodyOrder[1]
            /\ proc_stat' = "closed"
            /\ proc_meminfo' = "closed"
            /\ space_result' = NoSpace
            /\ UNCHANGED exit_code
       ELSE /\ pc' = "exit"
            /\ exit_code' = 0
            /\ UNCHANGED <<proc_stat, proc_meminfo, space_result>>
    /\ UNCHANGED <<count, interval_seconds, log_file, log_to_file, iterations,
                   cpu_usage, mem_stats, disk_usage, timestamp, console, csv,
                   clock, sleeps, meminfo, stat_reads, meminfo_reads,
                   space_queries>>
    /\ UNCHANGED tracker_vars

\* double cpu_usage = get_cpu_usage();
CallGetCpuUsage ==
    /\ UNCHANGED clock_reads
    /\ pc = "cpu"
    /\ \E src \in StatSources :
         LET r == get_cpu_usage(first_cpu_reading, prev_cpu_stats, src)
         IN  /\ proc_stat' = IF src.open THEN "open" ELSE "failed"
             /\ stat_reads' = stat_reads + r.reads
             /\ IF r.threw
                THEN /\ Throw
                     /\ UNCHANGED <<cpu_usage, first_cpu_reading,
                                    prev_cpu_stats, current, divided>>
                ELSE /\ cpu_usage' = r.usage
                     /\ first_cpu_reading' = r.first
                     /\ prev_cpu_stats' = r.prev
                     /\ current' = r.current
                     /\ divided' = r.divided
                     /\ pc' = After(pc)
                     /\ UNCHANGED exit_code
    /\ UNCHANGED <<count, interval_seconds, log_file, log_to_file, iterations,
                   mem_stats, disk_usage, timestamp, console, csv, clock,
                   sleeps, proc_meminfo, meminfo, space_result, meminfo_reads,
                   space_queries>>

\* MemoryStats mem_stats = get_memory_stats();
CallGetMemoryStats ==
    /\ UNCHANGED clock_reads
    /\ pc = "mem"
    /\ \E src \in MeminfoSources :
         LET r == get_memory_stats(src)
         IN  /\ proc_meminfo' = IF src.open THEN "open" ELSE "failed"
             /\ meminfo' = src
             /\ meminfo_reads' = meminfo_reads + 1
             /\ IF r.threw
                THEN /\ Throw
                     /\ UNCHANGED mem_stats
                ELSE /\ mem_stats' = r.stats
                     /\ pc' = After(pc)
                     /\ UNCHANGED exit_code
    /\ UNCHANGED <<count, interval_seconds, log_file, log_to_file, iterations,
                   cpu_usage, disk_usage, timestamp, console, csv, clock,
                   sleeps, proc_stat, space_result, stat_reads, space_queries>>
    /\ UNCHANGED tracker_vars

\* double disk_usage = get_disk_usage();
CallGetDiskUsage ==
    /\ UNCHANGED clock_reads
    /\ pc = "disk"
    /\ \E q \in SpaceResults :
         LET r == get_disk_usage(q)
         IN  /\ space_result' = q
             /\ space_queries' = space_queries + 1
             /\ IF r.threw
                THEN /\ Throw
                     /\ UNCHANGED disk_usage
                ELSE /\ disk_usage' = r.value
                     /\ pc' = After(pc)
                     /\ UNCHANGED exit_code
    /\ UNCHANGED <<count, interval_seconds, log_file, log_to_file, iterations,
                   cpu_usage, mem_stats, timestamp, console, csv, clock,
                   sleeps, proc_stat, proc_meminfo, meminfo, stat_reads,
                   meminfo_reads>>
    /\ UNCHANGED tracker_vars

\* std::string timestamp = get_timestamp();
CallGetTimestamp ==
    /\ pc = "ts"
    /\ timestamp' = clock
    /\ clock_reads' = clock_reads + 1
    /\ pc' = After(pc)
    /\ UNCHANGED <<count, interval_seconds, log_file, log_to_file, iterations,
                   cpu_usage, mem_stats, disk_usage, console, csv, clock,
                   sleeps, exit_code>>
    /\ UNCHANGED tracker_vars
    /\ UNCHANGED source_vars

\* the four std::cout statements: one console line
PrintLine ==
    /\ UNCHANGED clock_reads
    /\ pc = "print"
    /\ console' = Append(console, Snapshot(timestamp, cpu_usage,
                                           used_percent(mem_stats), disk_usage))
    /\ pc' = After(pc)
    /\ UNCHANGED <<count, interval_seconds, log_file, log_to_file, iterations,
                   cpu_usage, mem_stats, disk_usage, timestamp, csv, clock,
                   sleeps, exit_code>>
    /\ UNCHANGED tracker_vars
    /\ UNCHANGED source_vars

\* if (log_to_file) { append one row }
Log ==
    /\ UNCHANGED clock_reads
    /\ pc = "log"
    /\ csv' = IF log_to_file
              THEN Append(csv, Snapshot(timestamp, cpu_usage,
                                        used_percent(mem_stats), disk_usage))
              ELSE csv
    /\ pc' = After(pc)
    /\ UNCHANGED <<count, interval_seconds, log_file, log_to_file, iterations,
                   cpu_usage, mem_stats, disk_usage, timestamp, console, clock,
                   sleeps, exit_code>>
    /\ UNCHANGED tracker_vars
    /\ UNCHANGED source_vars

\* iterations++; if (count == -1 || iterations < count) sleep_for(interval)
EndOfIteration ==
    /\ UNCHANGED clock_reads
    /\ pc = "end"
    /\ iterations' = iterations + 1
    /\ IF ShouldSleep(count, iterations + 1)
       THEN /\ sleeps' = sleeps + 1
            /\ clock' = clock + interval_seconds
       ELSE UNCHANGED <<sleeps, clock>>
    /\ pc' = "loop"
    /\ UNCHANGED <<count, interval_seconds, log_file, log_to_file, cpu_usage,
                   mem_stats, disk_usage, timestamp, console, csv, exit_code>>
    /\ UNCHANGED tracker_vars
    /\ UNCHANGED source_vars

Init ==
    /\ pc = "main"
    /\ count \in Counts
    /\ interval_seconds \in Intervals
    /\ log_file \in LogFiles
    /\ log_to_file = FALSE
    /\ first_cpu_reading = TRUE
    /\ prev_cpu_stats \in IndeterminateStats
    /\ current = ZeroStats
    /\ divided = FALSE
    /\ iterations = 0
    /\ cpu_usage = NoDouble
    /\ mem_stats = NoMemoryStats
    /\ disk_usage = NoDouble
    /\ timestamp = -1
    /\ console = << >>
    /\ csv \in {<< >>, <<OldLine>>}
    /\ clock = 0
    /\ sleeps = 0
    /\ exit_code = -1
    /\ proc_stat = "closed"
    /\ proc_meminfo = "closed"
    /\ meminfo = NoMeminfo
    /\ space_result = NoSpace
    /\ stat_reads = 0
    /\ meminfo_reads = 0
    /\ space_queries = 0
    /\ clock_reads = 0

Next ==
    \/ Constructor
    \/ LoopTest
    \/ CallGetCpuUsage
    \/ CallGetMemoryStats
    \/ CallGetDiskUsage
    \/ CallGetTimestamp
    \/ PrintLine
    \/ Log
    \/ EndOfIteration

Spec == Init /\ [][Next]_vars

\* the single thread of main always takes its next step
FairSpec == Spec /\ WF_vars(Next)

(***************************************************************************)
(* TrackerSpec: a fresh SystemMonitor whose get_cpu_usage is called up to  *)
(* MaxCalls times, each call reading an arbitrary /proc/stat.              *)
(***************************************************************************)
RECURSIVE SeqSum(_)
SeqSum(f) == IF f = << >> THEN 0 ELSE Head(f) + SeqSum(Tail(f))

\* first lines of /proc/stat: up to eight non-negative counters after the label
StatLines ==
    {f \in UNION {[1..n -> 0..MaxTotal] : n \in 0..NumFields} :
        SeqSum(f) <= MaxTotal}

TrackerSources ==
    {[open |-> FALSE, fields |-> << >>]}
        \cup {[open |-> TRUE, fields |-> f] : f \in StatLines}

TrackerInit ==
    /\ pc = "tracker"
    /\ count = 0
    /\ interval_seconds = 0
    /\ log_file = ""
    /\ log_to_file = FALSE
    /\ first_cpu_reading = TRUE
    /\ prev_cpu_stats \in IndeterminateStats
    /\ current = ZeroStats
    /\ divided = FALSE
    /\ iterations = 0
    /\ cpu_usage = NoDouble
    /\ mem_stats = NoMemoryStats
    /\ disk_usage = NoDouble
    /\ timestamp = -1
    /\ console = << >>
    /\ csv = << >>
    /\ clock = 0
    /\ sleeps = 0
    /\ exit_code = -1
    /\ proc_stat = "closed"
    /\ proc_meminfo = "closed"
    /\ meminfo = NoMeminfo
    /\ space_result = NoSpace
    /\ stat_reads = 0
    /\ meminfo_reads = 0
    /\ space_queries = 0
    /\ clock_reads = 0

\* one call of get_cpu_usage
Observe ==
    /\ UNCHANGED clock_reads
    /\ pc = "tracker"
    /\ stat_reads < MaxCalls
    /\ \E src \in TrackerSources :
         LET r == get_cpu_usage(first_cpu_reading, prev_cpu_stats, src)
         IN  /\ proc_stat' = IF src.open THEN "open" ELSE "failed"
             /\ stat_reads' = stat_reads + r.reads
             /\ cpu_usage' = r.usage
             /\ first_cpu_reading' = r.first
             /\ prev_cpu_stats' = r.prev
             /\ current' = r.current
             /\ divided' = r.divided
    /\ UNCHANGED <<pc, count, interval_seconds, log_file, log_to_file,
                   iterations, mem_stats, disk_usage, timestamp, console, csv,
                   clock, sleeps, exit_code, proc_meminfo, meminfo,
                   space_result, meminfo_reads, space_queries>>

TrackerNext == Observe

TrackerSpec == TrackerInit /\ [][TrackerNext]_vars

(***************************************************************************)
(* Properties of get_cpu_usage (TrackerSpec).                              *)
(***************************************************************************)
\* the derived values of a reading as the data model states them
SumOfCounters(s) ==
    s.user + s.nice + s.system + s.idle + s.iowait + s.irq + s.softirq + s.steal
ActiveOfCounters(s) == SumOfCounters(s) - s.idle - s.iowait

\* the step is one call of get_cpu_usage
IsCall == stat_reads' = stat_reads + 1

\* every counter of b is at least that of a
NonDecreasing(a, b) ==
    /\ a.user <= b.user /\ a.nice <= b.nice /\ a.system <= b.system
    /\ a.idle <= b.idle /\ a.iowait <= b.iowait /\ a.irq <= b.irq
    /\ a.softirq <= b.softirq /\ a.steal <= b.steal

\* C1: the first get_cpu_usage call of a fresh monitor returns exactly 0.0
\* whatever it reads, and first_cpu_reading is true before that call and
\* false in every state after it.
C1_ColdStart ==
    /\ first_cpu_reading <=> stat_reads = 0
    /\ stat_reads = 1 => cpu_usage = Zero /\ ~divided

C1_Witness ==
    /\ stat_reads = 1
    /\ ~first_cpu_reading
    /\ cpu_usage = Zero
    /\ ActiveOfCounters(current) > 0
    /\ current.idle > 0

\* C2: on every call after the first whose reading has a larger total than
\* the reading of the call before it, the result is
\* 100 * (active delta) / (total delta) of these two readings, with
\* active = total - idle - iowait; and every call stores its reading as the
\* baseline.
C2_DeltaOfConsecutiveReadings ==
    [][IsCall =>
        /\ prev_cpu_stats' = current'
        /\ (stat_reads >= 1 /\ SumOfCounters(current') > SumOfCounters(current)) =>
              cpu_usage' = Fin(100 * (ActiveOfCounters(current') - ActiveOfCounters(current)),
                               SumOfCounters(current') - SumOfCounters(current))]_vars

C2_Witness ==
    /\ stat_reads = 3
    /\ divided
    /\ cpu_usage = Fin(50, 1)
    /\ current.iowait > 0

\* C3: a call that is not the first and reads a total no larger than the
\* stored baseline's returns exactly 0.0 without dividing, and stores its
\* reading as the new baseline.
C3_CounterRegression ==
    [][(IsCall /\ ~first_cpu_reading
          /\ SumOfCounters(current') <= SumOfCounters(prev_cpu_stats)) =>
        /\ cpu_usage' = Zero
        /\ ~divided'
        /\ prev_cpu_stats' = current']_vars

C3_Witness ==
    /\ stat_reads = 2
    /\ ~divided
    /\ cpu_usage = Zero
    /\ prev_cpu_stats = current
    /\ SumOfCounters(current) > 0

\* C4: every value get_cpu_usage returns is >= 0, whether or not the
\* counters are monotonic, and it is <= 100 when every counter is
\* non-decreasing from the stored baseline to the reading.
C4_NeverNegative ==
    [][IsCall =>
        /\ GeZero(cpu_usage')
        /\ (~first_cpu_reading /\ NonDecreasing(prev_cpu_stats, current')) =>
              LeHundred(cpu_usage')]_vars

(***************************************************************************)
(* Properties of a session (Spec, FairSpec).                               *)
(***************************************************************************)
\* the tick in progress has written its console line
Printed == pc \in {"log", "end"}
LastLine == console[Len(console)]
\* a counter source could not be opened in the tick in progress (or, at
\* "loop" and "exit", in the tick just completed)
SourceFailed == proc_stat = "failed" \/ proc_meminfo = "failed"
\* this tick's filesystem-space query failed or reported capacity 0
SpaceFailed ==
    space_result.st = "error" \/ (space_result.st = "ok" /\ space_result.capacity = 0)

\* C5: the memory percentage a tick reports is 0.0 when the memory reading
\* has total = 0, and lies in [0, 100] when total >= available >= 0.
C5_MemoryPercent ==
    Printed =>
        /\ mem_stats.total = 0 => LastLine.mem = Zero
        /\ (mem_stats.total >= mem_stats.available /\ mem_stats.available >= 0) =>
              GeZero(LastLine.mem) /\ LeHundred(LastLine.mem)

\* C6: a tick in which /proc/stat or /proc/meminfo cannot be opened emits no
\* console line and no CSV row, no later tick runs, and main returns 1.
C6_NoPartialSnapshot ==
    SourceFailed =>
        /\ Len(console) <= iterations
        /\ log_to_file => Len(csv) <= iterations + 1
        /\ pc # "loop"
        /\ pc = "exit" => exit_code = 1

\* C7: a filesystem-space query that fails or reports capacity 0 makes
\* get_disk_usage return 0.0 without an error: the step goes on to the next
\* statement and leaves the CPU value, the memory reading and the tracker as
\* they are, main never returns 1 because of it, and the tick's console line
\* carries the tick's CPU and memory values and disk 0.0.
C7_DiskStep ==
    pc = "disk" =>
        /\ pc' = "ts"
        /\ UNCHANGED <<cpu_usage, mem_stats, exit_code>>
        /\ UNCHANGED tracker_vars
        /\ (space_result'.st = "error" \/ space_result'.capacity = 0) =>
              disk_usage' = Zero

C7_DiskInv ==
    SpaceFailed =>
        /\ disk_usage = Zero
        /\ exit_code # 1
        /\ prev_cpu_stats = current
        /\ Printed =>
              LastLine = Snapshot(timestamp, cpu_usage, used_percent(mem_stats), Zero)

C7_DiskFailSoft == []C7_DiskInv /\ [][C7_DiskStep]_vars

C7_Witness ==
    /\ pc = "end"
    /\ iterations = 1
    /\ space_result.st = "error"
    /\ console[1].disk # Zero
    /\ LastLine.disk = Zero
    /\ LastLine.cpu = Fin(10, 1)
    /\ LastLine.mem = Fin(75, 1)

\* the number of ticks that have written their console line / their CSV row
LinesDue == iterations + (IF pc \in {"log", "end"} THEN 1 ELSE 0)
RowsDue == iterations + (IF pc = "end" THEN 1 ELSE 0)

C9_TimestampFirst ==
    /\ stat_reads <= clock_reads
    /\ meminfo_reads <= stat_reads
    /\ space_queries <= meminfo_reads
    /\ clock_reads <= space_queries + 1
    /\ Len(console) <= space_queries
    /\ pc = "print" =>
          /\ clock_reads = iterations + 1
          /\ stat_reads = iterations + 1
          /\ meminfo_reads = iterations + 1
          /\ space_queries = iterations + 1

\* C9 as amended: in every tick the CPU, memory and disk counters are read
\* in that order, each exactly once, then the timestamp is acquired, and
\* only then is the snapshot reported.
C9_TimestampLast ==
    /\ meminfo_reads <= stat_reads
    /\ space_queries <= meminfo_reads
    /\ clock_reads <= space_queries
    /\ stat_reads <= clock_reads + 1
    /\ Len(console) <= clock_reads
    /\ pc = "print" =>
          /\ clock_reads = iterations + 1
          /\ stat_reads = iterations + 1
          /\ meminfo_reads = iterations + 1
          /\ space_queries = iterations + 1
    /\ pc \in {"loop", "exit"} =>
          /\ clock_reads = iterations
          /\ stat_reads = iterations
          /\ meminfo_reads = iterations
          /\ space_queries = iterations

C9_Witness ==
    /\ pc = "ts"
    /\ iterations = 1
    /\ stat_reads = 2
    /\ meminfo_reads = 2
    /\ space_queries = 2
    /\ clock_reads = 1

\* C10: with count >= 0 monitor returns after exactly count ticks having
\* slept max(count - 1, 0) times, never after the last tick; with
\* count < -1 it returns without a tick; with count = -1 it never returns
\* and has slept once per completed tick.
Max(a, b) == IF a >= b THEN a ELSE b
Min(a, b) == IF a <= b THEN a ELSE b

C10_Inv ==
    /\ (pc = "exit" /\ count >= 0) =>
          iterations = count /\ sleeps = Max(count - 1, 0) /\ exit_code = 0
    /\ (pc = "exit" /\ count < -1) =>
          iterations = 0 /\ sleeps = 0 /\ console = << >> /\ exit_code = 0
    /\ count >= 0 =>
          iterations <= count /\ sleeps = Min(iterations, Max(count - 1, 0))
    /\ count = -1 => pc # "exit" /\ sleeps = iterations

C10_LoopBound == []C10_Inv /\ ((count # -1) ~> (pc = "exit"))

C10_Witness ==
    /\ pc = "exit"
    /\ count = 2
    /\ iterations = 2
    /\ sleeps = 1
    /\ clock = 1

====
